---- MODULE Spec2Model ----
(***************************************************************************)
(* Model of the subtitle segment timing engine of translate-video          *)
(* (src/utils/subtitle_generator.py): merge_short_segments,                *)
(* split_long_segments and _preserve_original_timing, applied to segment   *)
(* lists as main.process_video applies them, and create_srt               *)
(* (specification Spec); and of the jobs of the web application            *)
(* (src/main.py): upload_file, the worker threads running process_video    *)
(* or process_video_demo, and download (specification SpecJob, and        *)
(* SpecJobFair where the threads are scheduled fairly); and of the         *)
(* scripts that take a transcription through translate_segments            *)
(* (src/utils/translator.py) to create_srt (specification SpecPipeline).   *)
(*                                                                         *)
(* Time.  The code computes with floating-point seconds.  The model        *)
(* computes with exact integers: one tick is 1/TicksPerCs of a centisecond *)
(* (10 ms), fine enough that the proportional word positions               *)
(* start + duration * i / n of the split pass are exact.                   *)
(*                                                                         *)
(* Text.  A Python str is a sequence of tokens; a token is a word (a       *)
(* maximal run of non-blank characters, named by a string, of WordLen      *)
(* characters) or the blank SP.  len(), split(), strip() and + are         *)
(* modelled on that representation.                                        *)
(*                                                                         *)
(* A segment is a Python dict: a function from its keys to values, so a    *)
(* missing key is a key that is not in DOMAIN.                             *)
(***************************************************************************)
EXTENDS Integers, Sequences, FiniteSets, TLC

VARIABLES
    entry_point,    \* the script that runs the pipeline ("": the passes called alone)
    input,          \* the list handed to the first pass
    min_duration,   \* parameter of merge_short_segments
    max_chars,      \* parameter of merge_short_segments and split_long_segments
    max_duration,   \* parameter of split_long_segments
    cur,            \* the list returned by the last pass that ran (input at first)
    ops,            \* the passes that ran, in order
    merge_log,      \* the merge branches merge_short_segments took (history)
    split_segments, \* split_long_segments' list before its overlap pass
    split_source,   \* for each element of split_segments, the segment it came from
    arg,            \* the caller's list, as the last pass left it
    raised,         \* TRUE when a pass raised instead of returning
    srt_file,       \* <<>> before create_srt ran, then <<the entries written>>
    full_processing,    \* main.FULL_PROCESSING
    processing_status,  \* main.processing_status: the dict of each job
    pc,                 \* for each job, the line its worker thread is at (0: ended)
    exc,                \* for each job, str(e) of the exception in flight
    job_raised,         \* the jobs in which a call raised (history)
    downloads           \* the download requests that got past the status test (history)

engine_vars == <<entry_point, input, min_duration, max_chars, max_duration, cur, ops, merge_log,
                 split_segments, split_source, arg, raised, srt_file>>

job_vars == <<full_processing, processing_status, pc, exc, job_raised, downloads>>

vars == <<engine_vars, job_vars>>

----------------------------------------------------------------------------
(* Units *)

\* ticks per centisecond: divisible by every word count 1..7, 10, 14, 35, 70
TicksPerCs == 2 * 2 * 3 * 5 * 7

Cs(n) == n * TicksPerCs

\* default parameters, in centiseconds
DefaultMinDuration == 120
DefaultMaxChars == 60
DefaultMaxDuration == 400
\* gap = 0.02
GuardGapCs == 2
\* segment['start'] - current_segment['end'] < 0.5
MergeGapCs == 50
\* extension = min(0.3, ...)
MaxExtensionCs == 30
\* reading_speed = 2.5 words per second, times ten
ReadingSpeedTenths == 25

Min(a, b) == IF a <= b THEN a ELSE b
Max(a, b) == IF a >= b THEN a ELSE b

----------------------------------------------------------------------------
(* Python str *)

SP == " "

\* the words texts are built from, with their lengths in characters
WordLen(w) ==
    CASE w = "Hi"    -> 2
      [] w = "there" -> 5
      [] w = "A"     -> 1
      [] w = "B"     -> 1
      [] w = "W30a"  -> 30
      [] w = "W30b"  -> 30
      [] w = "W61"   -> 61
      [] w = "Halo"  -> 4
      [] w = "dunia" -> 5
      [] w = "Ya"    -> 2
      [] w = "[music]"       -> 7
      [] w = "(tertawa)"     -> 9
      [] w = "[Translation:" -> 13
      [] w = "dunia]"        -> 6

TokLen(t) == IF t = SP THEN 1 ELSE WordLen(t)

\* len(text)
RECURSIVE StrLen(_)
StrLen(text) ==
    LET n == Len(text)
        h == n \div 2
    IN  IF n = 0 THEN 0
        ELSE IF n = 1 THEN TokLen(text[1])
        ELSE StrLen(SubSeq(text, 1, h)) + StrLen(SubSeq(text, h + 1, n))

\* text.split(): the words of text, blanks removed
PySplit(text) == SelectSeq(text, LAMBDA t : t # SP)

\* text.strip(): leading and trailing blanks removed
RECURSIVE LStrip(_)
LStrip(text) ==
    IF text # <<>> /\ Head(text) = SP THEN LStrip(Tail(text)) ELSE text

RECURSIVE RStrip(_)
RStrip(text) ==
    IF text # <<>> /\ text[Len(text)] = SP
    THEN RStrip(SubSeq(text, 1, Len(text) - 1))
    ELSE text

PyStrip(text) == RStrip(LStrip(text))

\* a + ' ' + b
JoinSp(a, b) == a \o <<SP>> \o b

Last(s) == s[Len(s)]

----------------------------------------------------------------------------
(* Object identity.  The dicts of the list a pass is called with are the    *)
(* objects 1, 2, ...; 0 stands for a dict the pass created.  The passes     *)
(* write only through current_segment, so the caller's dict i changes       *)
(* exactly when current_segment refers to object i.                         *)

\* variant of PyCopy: no copy is made, the name refers to the same dict
PyCopy_SameObject(i) == i

\* segment.copy(): a new dict with the same items
PyCopy(i) == 0

----------------------------------------------------------------------------
(* merge_short_segments *)

Duration(segment) == segment.end - segment.start

\* variant of MergeCond: the duration test is left out
MergeCond_NoDurationTest(current_segment, segment, mind, maxc) ==
    /\ StrLen(JoinSp(current_segment.text, segment.text)) <= maxc
    /\ segment.start - current_segment.end < Cs(MergeGapCs)

\* variant of MergeCond: the length test is left out
MergeCond_NoCharTest(current_segment, segment, mind, maxc) ==
    /\ Duration(segment) < mind
    /\ segment.start - current_segment.end < Cs(MergeGapCs)

\* the elif condition: the incoming segment is absorbed into current_segment
MergeCond(current_segment, segment, mind, maxc) ==
    /\ Duration(segment) < mind
    /\ StrLen(JoinSp(current_segment.text, segment.text)) <= maxc
    /\ segment.start - current_segment.end < Cs(MergeGapCs)

\* optimal_duration = max(min_duration, word_count / reading_speed)
OptimalDuration(text, mind) ==
    Max(mind, (Len(PySplit(text)) * Cs(1000)) \div ReadingSpeedTenths)

\* variant of ExtendedEnd: the end is never extended
ExtendedEnd_NoExtension(start, end, text, mind) == end

\* current_segment['end'] after the extension step
ExtendedEnd(start, end, text, mind) ==
    LET optimal_duration == OptimalDuration(text, mind) IN
    IF end - start < optimal_duration
    THEN end + Min(Cs(MaxExtensionCs), optimal_duration - (end - start))
    ELSE end

\* the merge branch: text appended, end taken from segment, then extended
Absorb(current_segment, segment, mind) ==
    LET text == JoinSp(current_segment.text, segment.text) IN
    [current_segment EXCEPT
        !.text = text,
        !.end = ExtendedEnd(current_segment.start, segment.end, text, mind)]

\* the for loop from position i on; current is <<>> for None
RECURSIVE MergeLoop(_, _, _, _, _, _)
MergeLoop(segments, i, merged_segments, current, mind, maxc) ==
    IF i > Len(segments)
    THEN merged_segments \o current
    ELSE LET segment == segments[i] IN
         IF current = <<>>
         THEN MergeLoop(segments, i + 1, merged_segments, <<segment>>, mind, maxc)
         ELSE IF MergeCond(current[1], segment, mind, maxc)
         THEN MergeLoop(segments, i + 1, merged_segments,
                        <<Absorb(current[1], segment, mind)>>, mind, maxc)
         ELSE MergeLoop(segments, i + 1, merged_segments \o current,
                        <<segment>>, mind, maxc)

\* variant of merge_short_segments: the extension step is applied to every
\* segment that is emitted, merged or not
merge_short_segments_ExtendAll(segments, mind, maxc) ==
    LET out == MergeLoop(segments, 1, <<>>, <<>>, mind, maxc) IN
    [j \in 1..Len(out) |->
        [out[j] EXCEPT !.end = ExtendedEnd(out[j].start, out[j].end, out[j].text, mind)]]

merge_short_segments(segments, mind, maxc) ==
    MergeLoop(segments, 1, <<>>, <<>>, mind, maxc)

\* current_segment when the for loop reaches segments[i], i >= 2: the loop
\* run on the first i - 1 segments leaves it to the final append
CurrentBefore(segments, i, mind, maxc) ==
    Last(merge_short_segments(SubSeq(segments, 1, i - 1), mind, maxc))

\* the iterations that took the merge branch: position, current_segment
\* before, the segment absorbed, current_segment after
MergeLog(segments, mind, maxc) ==
    { [i       |-> i,
       current |-> CurrentBefore(segments, i, mind, maxc),
       segment |-> segments[i],
       result  |-> Absorb(CurrentBefore(segments, i, mind, maxc), segments[i], mind)] :
      i \in { k \in 2..Len(segments) :
                 MergeCond(CurrentBefore(segments, k, mind, maxc), segments[k], mind, maxc) } }

\* the positions whose segment was absorbed
AbsorbedAt(segments, mind, maxc) == { e.i : e \in MergeLog(segments, mind, maxc) }

\* the last position of the group that position i opened
GroupLast(segments, i, mind, maxc) ==
    CHOOSE k \in i..Len(segments) :
        /\ \A n \in (i + 1)..k : n \in AbsorbedAt(segments, mind, maxc)
        /\ k = Len(segments) \/ (k + 1) \notin AbsorbedAt(segments, mind, maxc)

\* the caller's list after merge_short_segments: dict i holds what was
\* written through current_segment if current_segment referred to it
ArgAfterMerge(segments, mind, maxc) ==
    [i \in 1..Len(segments) |->
        IF PyCopy(i) = i /\ i \notin AbsorbedAt(segments, mind, maxc)
        THEN Last(merge_short_segments(
                      SubSeq(segments, 1, GroupLast(segments, i, mind, maxc)), mind, maxc))
        ELSE segments[i]]

----------------------------------------------------------------------------
(* _preserve_original_timing *)

\* the first if: the segment starts before the previously emitted one ends
\* variant of StartsBeforePrev: the guard gap counts as overlap
StartsBeforePrev_WithinGap(optimized, current_segment) ==
    optimized # <<>> /\ current_segment.start <= Last(optimized).end + Cs(GuardGapCs)

StartsBeforePrev(optimized, current_segment) ==
    optimized # <<>> /\ current_segment.start < Last(optimized).end

\* start pushed behind the previous end, original duration kept
PushForward(optimized, segment) ==
    LET start == Last(optimized).end + Cs(GuardGapCs) IN
    [segment EXCEPT !.start = start, !.end = start + Duration(segment)]

\* variant of ClampEnd: clamps to the next start, without the guard gap
ClampEnd_NoGap(end, next_start) ==
    IF end > next_start THEN next_start ELSE end

\* variant of ClampEnd: the end is never clamped
ClampEnd_Never(end, next_start) == end

\* variant of ClampEnd: the gap is taken off every end
ClampEnd_AlwaysShortens(end, next_start) ==
    Min(end, next_start) - Cs(GuardGapCs)

\* the second if: end clamped to the next segment's start minus the gap
ClampEnd(end, next_start) ==
    IF end > next_start - Cs(GuardGapCs) THEN next_start - Cs(GuardGapCs) ELSE end

RECURSIVE PreserveLoop(_, _, _)
PreserveLoop(segments, i, optimized) ==
    IF i > Len(segments)
    THEN optimized
    ELSE LET segment == segments[i]
             pushed == IF StartsBeforePrev(optimized, segment)
                       THEN PushForward(optimized, segment)
                       ELSE segment
             current_segment ==
                 IF i < Len(segments)
                 THEN [pushed EXCEPT !.end = ClampEnd(pushed.end, segments[i + 1].start)]
                 ELSE pushed
         IN  PreserveLoop(segments, i + 1, Append(optimized, current_segment))

_preserve_original_timing(segments) ==
    IF segments = <<>> THEN segments ELSE PreserveLoop(segments, 1, <<>>)

\* the caller's list after _preserve_original_timing
ArgAfterPreserve(segments) ==
    [i \in 1..Len(segments) |->
        IF PyCopy(i) = i THEN _preserve_original_timing(segments)[i] ELSE segments[i]]

----------------------------------------------------------------------------
(* split_long_segments *)

\* the segment is appended unchanged (a copy) when this holds
NeedsNoSplit(segment, maxc, maxd) ==
    StrLen(segment.text) <= maxc /\ Duration(segment) <= maxd

\* variant of WordRatioRaises: the division by len(words) is made once,
\* before the loop over the words
WordRatioRaises_BeforeLoop(words) == Len(words) = 0

\* i / len(words) and (i + 1) / len(words) raise ZeroDivisionError when
\* len(words) is 0; they are evaluated once for each word of words
WordRatioRaises(words) == \E i \in 1..Len(words) : Len(words) = 0

\* variant of WordPositions: the words are counted from 1 (enumerate(words, 1))
WordPositions_OneBased(segment) ==
    LET words == PySplit(segment.text)
        n == Len(words)
        duration == Duration(segment)
    IN  [i \in 1..n |->
            [word  |-> words[i],
             start |-> segment.start + (duration * i) \div n,
             end   |-> segment.start + (duration * (i + 1)) \div n]]

\* variant of WordPositions: the times are not offset by segment['start']
WordPositions_NoOffset(segment) ==
    LET words == PySplit(segment.text)
        n == Len(words)
        duration == Duration(segment)
    IN  [i \in 1..n |->
            [word  |-> words[i],
             start |-> (duration * (i - 1)) \div n,
             end   |-> (duration * i) \div n]]

\* word_positions: word i of n occupies [start + d*i/n, start + d*(i+1)/n]
WordPositions(segment) ==
    LET words == PySplit(segment.text)
        n == Len(words)
        duration == Duration(segment)
    IN  [i \in 1..n |->
            [word  |-> words[i],
             start |-> segment.start + (duration * (i - 1)) \div n,
             end   |-> segment.start + (duration * i) \div n]]

\* test_text: current_text with the word appended
TestText(current_text, word) ==
    IF current_text # <<>> THEN JoinSp(current_text, <<word>>) ELSE <<word>>

\* variant of FitsBudget: the separating blanks are not counted
FitsBudget_NoSeparator(test_text, maxc) == StrLen(PySplit(test_text)) <= maxc

\* the word is accumulated into the open fragment when this holds
FitsBudget(test_text, maxc) == StrLen(test_text) <= maxc

\* variant of Fragment: original_text is always taken from the text
Fragment_TextAsOriginal(segment, start_time, end_time, current_text) ==
    [start         |-> start_time,
     end           |-> end_time,
     text          |-> PyStrip(current_text),
     original_text |-> segment.text,
     confidence    |-> IF "confidence" \in DOMAIN segment
                       THEN segment.confidence ELSE 0]

\* the dict appended to split_segments for a group of words
Fragment(segment, start_time, end_time, current_text) ==
    [start         |-> start_time,
     end           |-> end_time,
     text          |-> PyStrip(current_text),
     original_text |-> IF "original_text" \in DOMAIN segment
                       THEN segment.original_text ELSE segment.text,
     confidence    |-> IF "confidence" \in DOMAIN segment
                       THEN segment.confidence ELSE 0]

\* the grouping loop from word k on; current_start_time is <<>> for None
RECURSIVE GroupLoop(_, _, _, _, _, _, _, _)
GroupLoop(segment, wp, k, current_text, current_words, current_start_time, out, maxc) ==
    IF k > Len(wp)
    THEN IF current_words # <<>>
         THEN Append(out, Fragment(segment, current_start_time[1],
                                   Last(current_words).end, current_text))
         ELSE out
    ELSE LET word_info == wp[k]
             test_text == TestText(current_text, word_info.word)
         IN  IF FitsBudget(test_text, maxc)
             THEN GroupLoop(segment, wp, k + 1, test_text,
                            Append(current_words, word_info),
                            IF current_start_time = <<>>
                            THEN <<word_info.start>> ELSE current_start_time,
                            out, maxc)
             ELSE IF current_words # <<>>
             THEN GroupLoop(segment, wp, k + 1, <<word_info.word>>,
                            <<word_info>>, <<word_info.start>>,
                            Append(out, Fragment(segment, current_start_time[1],
                                                 Last(current_words).end, current_text)),
                            maxc)
             ELSE GroupLoop(segment, wp, k + 1, current_text, current_words,
                            current_start_time, out, maxc)

\* what one iteration of the outer for loop appends to split_segments
SplitOne(segment, maxc, maxd) ==
    IF NeedsNoSplit(segment, maxc, maxd)
    THEN <<segment>>
    ELSE GroupLoop(segment, WordPositions(segment), 1, <<>>, <<>>, <<>>, <<>>, maxc)

\* what each iteration of the outer for loop appends
SplitEach(segments, maxc, maxd) ==
    [i \in 1..Len(segments) |-> SplitOne(segments[i], maxc, maxd)]

\* the lists of a list of lists, one after the other
RECURSIVE Concat(_)
Concat(lists) ==
    IF lists = <<>> THEN <<>> ELSE Head(lists) \o Concat(Tail(lists))

\* split_segments when the outer loop ends, before the overlap pass
SplitSegments(segments, maxc, maxd) == Concat(SplitEach(segments, maxc, maxd))

\* the outer loop raises at some segment
SplitRaises(segments, maxc, maxd) ==
    \E i \in 1..Len(segments) :
        /\ ~NeedsNoSplit(segments[i], maxc, maxd)
        /\ WordRatioRaises(PySplit(segments[i].text))

\* for each element of split_segments, the segment of the outer loop's
\* iteration that appended it; each is what the iterations appended
SplitSources(segments, each) ==
    Concat([i \in 1..Len(segments) |-> [k \in 1..Len(each[i]) |-> segments[i]]])

split_long_segments(segments, maxc, maxd) ==
    _preserve_original_timing(SplitSegments(segments, maxc, maxd))

\* the caller's list after split_long_segments: a segment that needs no
\* split is copied into split_segments and copied again by the overlap pass
ArgAfterSplit(segments, maxc, maxd) ==
    [i \in 1..Len(segments) |->
        IF NeedsNoSplit(segments[i], maxc, maxd) /\ PyCopy(PyCopy(i)) = i
        THEN split_long_segments(segments, maxc, maxd)[
                 Len(SplitSegments(SubSeq(segments, 1, i), maxc, maxd))]
        ELSE segments[i]]

----------------------------------------------------------------------------
(* create_srt *)

\* timedelta(seconds=seconds): the time in whole microseconds, rounded to
\* the nearest (a tick is 500/21 microseconds, so there are no ties)
TimedeltaMicroseconds(t) == (t * 1000 + 21) \div 42

\* _seconds_to_srt_time: the numbers printed as HH:MM:SS,mmm; divmod and
\* % take the floor, int() of the fraction drops what is below a millisecond.
\* In exact arithmetic: the float product (seconds % 1) * 1000 of the code
\* can fall just below a whole number and print one millisecond less.
SecondsToSrtTime(t) ==
    LET us == TimedeltaMicroseconds(t)
        whole == us \div 1000000
        remainder == whole % 3600
    IN  [hours        |-> whole \div 3600,
         minutes      |-> remainder \div 60,
         seconds      |-> remainder % 60,
         milliseconds |-> (us % 1000000) \div 1000]

\* variant of SrtIndex: enumerate without a start value counts from 0
SrtIndex_FromZero(k) == k - 1

\* the number enumerate(translated_segments, 1) gives the k-th segment
SrtIndex(k) == k

\* the entries create_srt writes: number, time line, text
SrtEntries(translated_segments) ==
    [k \in 1..Len(translated_segments) |->
        [index      |-> SrtIndex(k),
         start_time |-> SecondsToSrtTime(translated_segments[k].start),
         end_time   |-> SecondsToSrtTime(translated_segments[k].end),
         text       |-> translated_segments[k].text]]

----------------------------------------------------------------------------
(* translator.py.  A bracket or a parenthesis opens and closes within one   *)
(* token in the texts of the model, and no text has repeated punctuation.   *)

\* re.sub(r'\s+', ' ', text): every run of blanks becomes one blank
RECURSIVE CollapseBlanks(_)
CollapseBlanks(text) ==
    IF Len(text) < 2 THEN text
    ELSE IF text[1] = SP /\ text[2] = SP THEN CollapseBlanks(Tail(text))
    ELSE <<text[1]>> \o CollapseBlanks(Tail(text))

\* the tokens that are bracketed or parenthesised content
Bracketed == { "[music]", "(tertawa)" }

\* re.sub(r'\[.*?\]', '', text) and re.sub(r'\(.*?\)', '', text)
RemoveBracketed(text) == SelectSeq(text, LAMBDA t : t \notin Bracketed)

\* Translator._clean_text; the blanks around removed content stay
_clean_text(text) == PyStrip(RemoveBracketed(CollapseBlanks(text)))

\* what the MyMemory service answers for a word
TranslatedWord(w) ==
    CASE w = "Halo"  -> "Hi"
      [] w = "dunia" -> "there"
      [] OTHER       -> w

\* f"[Translation: {text}]", text ending in a word
TranslationFallback(text) ==
    <<"[Translation:", SP>> \o SubSeq(text, 1, Len(text) - 1) \o <<Last(text) \o "]">>

\* the outcomes of requests.get and of the service
ApiOutcomes == { "translated", "failed" }

\* Translator._translate_with_mymemory(text, source_lang, 'en')
_translate_with_mymemory(text, api) ==
    LET t == PyStrip(text) IN
    IF t = <<>> \/ StrLen(t) < 3 THEN t
    ELSE IF api = "translated" THEN [k \in 1..Len(t) |-> TranslatedWord(t[k])]
    ELSE TranslationFallback(t)

\* segment.get('language') == 'en'
AlreadyEnglish(segment) == "language" \in DOMAIN segment /\ segment.language = "en"

\* the dict translate_segments appends
Translated(segment, text) ==
    [start |-> segment.start, end |-> segment.end, text |-> text,
     original_text |-> segment.text]

\* the body of the loop of translate_segments raises a KeyError, and the
\* except branch, which reads the same keys, raises it again
SegmentRaises(segment) ==
    IF AlreadyEnglish(segment)
    THEN ~ ({"start", "end", "text"} \subseteq DOMAIN segment)
    ELSE \/ "text" \notin DOMAIN segment
         \/ /\ PyStrip(_clean_text(segment.text)) # <<>>
            /\ ~ ({"start", "end"} \subseteq DOMAIN segment)

\* what one turn of the loop appends: nothing, or one dict
TranslateOne(segment, api) ==
    IF AlreadyEnglish(segment) THEN <<Translated(segment, segment.text)>>
    ELSE LET text == _clean_text(segment.text) IN
         IF PyStrip(text) = <<>> THEN <<>>
         ELSE <<Translated(segment, _translate_with_mymemory(text, api))>>

TranslateRaises(segments) == \E i \in 1..Len(segments) : SegmentRaises(segments[i])

\* Translator.translate_segments, api[i] the service's outcome for segment i
translate_segments(segments, api) ==
    Concat([i \in 1..Len(segments) |-> TranslateOne(segments[i], api[i])])

----------------------------------------------------------------------------
(* Inputs *)

\* longest list of the systematic input family
MaxSegs == 2

Seg(s, e, text) == [start |-> Cs(s), end |-> Cs(e), text |-> text]

THi == <<"Hi">>
TThere == <<"there">>
TA == <<"A">>
TB == <<"B">>
\* 61 characters in two words
TLong == <<"W30a", SP, "W30b">>
\* 64 characters in three words
TThree == <<"W30a", SP, "Hi", SP, "W30b">>
\* a word longer than max_chars, first and not first
TBigFirst == <<"W61", SP, "Hi">>
TBigLast == <<"Hi", SP, "W61">>

\* 70 words of 5 characters, separated by single blanks
T70 == [k \in 1..139 |-> IF k % 2 = 1 THEN "there" ELSE SP]

\* start times of the family, in centiseconds
Starts == {0, 1, 60, 100, 250}

\* (duration in centiseconds, text) of the family's segments
Shapes ==
    { <<50, THi>>, <<30, TThere>>, <<58, TB>>, <<180, TA>>, <<300, TLong>>, <<300, TThree>>,
      <<200, TBigFirst>>, <<300, TBigLast>>, <<500, TB>>, <<-100, TA>> }

FamilySegs == { Seg(s, s + sh[1], sh[2]) : s \in Starts, sh \in Shapes }

Family == UNION { [1..n -> FamilySegs] : n \in 0..MaxSegs }

\* boundary scenario A of the merge pass
ScenarioA == <<Seg(0, 50, THi), Seg(60, 90, TThere)>>
\* boundary scenario C of the overlap pass
ScenarioC == <<Seg(100, 300, TA), Seg(250, 400, TB)>>
\* a merged pair followed closely by a third segment
ScenarioExt == <<Seg(0, 50, THi), Seg(60, 90, TThere), Seg(95, 300, TA)>>
\* the untranslated text of a segment; never measured or split
TOrig == <<"Halo", SP, "dunia">>

\* avg_logprob of a transcribed segment, in hundredths
ConfidenceHundredths == -25

\* a segment as translate_segments emits it: with original_text
SegT(s, e, text) == Seg(s, e, text) @@ [original_text |-> TOrig]

\* a segment with original_text and the transcriber's confidence
SegTC(s, e, text) == SegT(s, e, text) @@ [confidence |-> ConfidenceHundredths]

\* a segment with the transcriber's confidence and no original_text
SegC(s, e, text) == Seg(s, e, text) @@ [confidence |-> ConfidenceHundredths]

\* segments with provenance fields: long ones after a short one
ScenarioProvenance ==
    <<SegT(0, 50, THi), SegT(60, 360, TLong), SegTC(400, 700, TThree),
      SegC(800, 1100, TLong)>>

\* texts without words: empty, and blanks only
TEmpty == <<>>
TBlank == <<SP, SP>>

\* segments without words, short and long, among segments with words
ScenarioWordless ==
    <<Seg(0, 50, THi), Seg(60, 90, TBlank), Seg(200, 700, TBlank),
      Seg(800, 1300, TEmpty), Seg(1400, 1900, TB)>>

\* nothing but long segments without words
ScenarioAllWordless == <<Seg(0, 500, TEmpty), Seg(600, 1100, TBlank)>>

\* boundary scenario B of the split pass
ScenarioB == <<Seg(0, 1000, T70)>>

Scenarios == { ScenarioA, ScenarioB, ScenarioC, ScenarioExt, ScenarioProvenance,
               ScenarioWordless, ScenarioAllWordless }

Inputs == Family \cup Scenarios

\* min_duration: the default 1.2 and scenario A's 1.0
MinDurations == { Cs(DefaultMinDuration), Cs(100) }

\* longest transcription handed to translate_segments
MaxTranscribed == 2

\* (text, language) of the transcribed segments; "" stands for no language key
TranscribedShapes ==
    { <<TOrig, "id">>, <<TOrig, "">>, <<<<"Ya">>, "id">>,
      <<<<"[music]">>, "id">>, <<<<"(tertawa)">>, "id">>,
      <<<<"Halo", SP, "[music]", SP, "dunia">>, "id">>, <<TEmpty, "id">>,
      <<<<"Hi", SP, "there">>, "en">>, <<<<"[music]">>, "en">>, <<TEmpty, "en">> }

\* the i-th segment of a transcription: 0.8 s long, one every second
Transcribed(i, shape) ==
    LET segment == SegC(100 * (i - 1), 100 * (i - 1) + 80, shape[1])
    IN  IF shape[2] = "" THEN segment ELSE segment @@ [language |-> shape[2]]

\* a segment that lacks a key the translator reads
NoEnd(i) == [start |-> Cs(100 * (i - 1)), text |-> TOrig, language |-> "id"]

Transcriptions ==
    UNION { { [i \in 1..n |-> IF shapes[i] = <<>> THEN NoEnd(i)
                              ELSE Transcribed(i, shapes[i])] :
              shapes \in [1..n -> TranscribedShapes \cup {<<>>}] } :
            n \in 0..MaxTranscribed }

\* the scripts that write a subtitle file from a transcription
EntryPoints == { "process_video", "process_video_with_subtitles", "main" }

\* what an entry point calls after transcription, in order
Calls(ep) ==
    IF ep = "process_video"
    THEN <<"translate", "merge", "split", "create_srt">>
    ELSE <<"translate", "create_srt">>

\* the entry point is about to call op
Reaches(op) ==
    /\ entry_point \in EntryPoints
    /\ Len(ops) < Len(Calls(entry_point))
    /\ Calls(entry_point)[Len(ops) + 1] = op

----------------------------------------------------------------------------
(* The passes as operations on the current list *)

\* the web application has no job
NoJobs ==
    /\ full_processing = TRUE
    /\ processing_status = <<>>
    /\ pc = <<>>
    /\ exc = <<>>
    /\ job_raised = {}
    /\ downloads = {}

Init ==
    /\ NoJobs
    /\ entry_point = ""
    /\ input \in Inputs
    /\ min_duration \in MinDurations
    \* process_video passes no min_duration: the other value is tried on the
    \* scenarios and on lists of at most two segments
    /\ min_duration # Cs(DefaultMinDuration) => (input \in Scenarios \/ Len(input) <= 2)
    /\ max_chars = DefaultMaxChars
    /\ max_duration = Cs(DefaultMaxDuration)
    /\ cur = input
    /\ ops = <<>>
    /\ merge_log = {}
    /\ split_segments = <<>>
    /\ split_source = <<>>
    /\ arg = input
    /\ raised = FALSE
    /\ srt_file = <<>>

\* optimized_segments = subtitle_generator.merge_short_segments(translated_segments)
MergeShortSegments ==
    /\ IF entry_point = "" THEN ops = <<>> ELSE Reaches("merge")
    /\ srt_file = <<>>
    /\ ~raised
    /\ cur' = merge_short_segments(cur, min_duration, max_chars)
    /\ ops' = Append(ops, "merge")
    /\ merge_log' = MergeLog(cur, min_duration, max_chars)
    /\ arg' = ArgAfterMerge(cur, min_duration, max_chars)
    /\ UNCHANGED <<split_segments, split_source, raised, srt_file>>
    /\ UNCHANGED <<entry_point, input, min_duration, max_chars, max_duration>>
    /\ UNCHANGED job_vars

\* subtitle_generator.split_long_segments(...), on the merged list or on the input
SplitLongSegments ==
    /\ IF entry_point = "" THEN ops \in { <<>>, <<"merge">> } ELSE Reaches("split")
    /\ srt_file = <<>>
    /\ ~raised
    /\ IF SplitRaises(cur, max_chars, max_duration)
       THEN /\ raised' = TRUE
            /\ UNCHANGED <<cur, ops, split_segments, split_source, arg>>
       ELSE LET each == SplitEach(cur, max_chars, max_duration) IN
            /\ split_segments' = Concat(each)
            /\ split_source' = SplitSources(cur, each)
            /\ cur' = _preserve_original_timing(split_segments')
            /\ ops' = Append(ops, "split")
            /\ arg' = ArgAfterSplit(cur, max_chars, max_duration)
            /\ raised' = FALSE
    /\ UNCHANGED <<entry_point, input, min_duration, max_chars, max_duration, merge_log, srt_file>>
    /\ UNCHANGED job_vars

\* _preserve_original_timing (or its alias _optimize_segment_timing) on the input
PreserveOriginalTiming ==
    /\ entry_point = ""
    /\ ops = <<>>
    /\ srt_file = <<>>
    /\ ~raised
    /\ cur' = _preserve_original_timing(cur)
    /\ ops' = Append(ops, "preserve")
    /\ arg' = ArgAfterPreserve(cur)
    /\ UNCHANGED <<entry_point, input, min_duration, max_chars, max_duration, merge_log,
                   split_segments, split_source, raised, srt_file>>
    /\ UNCHANGED job_vars

\* subtitle_generator.create_srt(...): on the engine's output (main.py), or
\* on the translated segments as they are (process_video_direct.py)
CreateSrt ==
    /\ IF entry_point = "" THEN ops \in { <<>>, <<"merge", "split">> }
       ELSE Reaches("create_srt")
    /\ ~raised
    /\ srt_file = <<>>
    /\ srt_file' = <<SrtEntries(cur)>>
    /\ arg' = cur
    /\ UNCHANGED <<entry_point, input, min_duration, max_chars, max_duration, cur, ops,
                   merge_log, split_segments, split_source, raised>>
    /\ UNCHANGED job_vars

Next ==
    \/ MergeShortSegments
    \/ SplitLongSegments
    \/ PreserveOriginalTiming
    \/ CreateSrt

Spec == Init /\ [][Next]_vars

----------------------------------------------------------------------------
(* The entry points: main.process_video (lines 186-198),                    *)
(* process_video_direct.process_video_with_subtitles (lines 45-54) and      *)
(* create_subtitles_manual.main (lines 150-156), from the transcription on. *)

InitPipeline ==
    /\ NoJobs
    /\ entry_point \in EntryPoints
    /\ input \in Transcriptions
    /\ min_duration = Cs(DefaultMinDuration)
    /\ max_chars = DefaultMaxChars
    /\ max_duration = Cs(DefaultMaxDuration)
    /\ cur = input
    /\ ops = <<>>
    /\ merge_log = {}
    /\ split_segments = <<>>
    /\ split_source = <<>>
    /\ arg = input
    /\ raised = FALSE
    /\ srt_file = <<>>

\* translated_segments = translator.translate_segments(transcription)
TranslateSegments ==
    /\ Reaches("translate")
    /\ ~raised
    /\ srt_file = <<>>
    /\ IF TranslateRaises(cur)
       THEN /\ raised' = TRUE
            /\ UNCHANGED <<cur, ops>>
       ELSE \E api \in [1..Len(cur) -> ApiOutcomes] :
                /\ cur' = translate_segments(cur, api)
                /\ ops' = Append(ops, "translate")
                /\ raised' = FALSE
    /\ arg' = cur
    /\ UNCHANGED <<entry_point, input, min_duration, max_chars, max_duration,
                   merge_log, split_segments, split_source, srt_file>>
    /\ UNCHANGED job_vars

NextPipeline ==
    \/ TranslateSegments
    \/ MergeShortSegments
    \/ SplitLongSegments
    \/ CreateSrt

SpecPipeline == InitPipeline /\ [][NextPipeline]_vars

----------------------------------------------------------------------------
(* main.py: jobs.  upload_file creates the job's dict and starts a worker   *)
(* thread that runs process_video (process_video_demo without the           *)
(* processing modules).  A statement of the worker is one step, so that     *)
(* requests interleave between any two writes to processing_status.  A      *)
(* message, like str(e), is a sequence of pieces of text.                   *)

\* most jobs uploaded
MaxJobs == 2

\* instructions of a worker: line is where control goes next
Set(key, value, line) == [op |-> "set", key |-> key, value |-> value, next |-> line]

\* a call that returns (control goes to line) or raises (control goes to
\* handler, the except clause of the innermost enclosing try)
Call(name, line, handler) ==
    [op |-> "call", name |-> name, next |-> line, handler |-> handler]

\* raise Exception(f"{prefix}{e}") inside an except clause
Reraise(prefix, handler) == [op |-> "raise", prefix |-> prefix, handler |-> handler]

\* processing_status[task_id]['message'] = f'Error: {str(e)}'
SetErrorMessage(line) == [op |-> "set_error_message", next |-> line]

\* process_video, by line of main.py
ProcessVideoInstr(line) ==
    CASE line = 152 -> Set("status", "processing", 153)
      [] line = 153 -> Set("progress", 10, 154)
      [] line = 154 -> Set("message", <<"Extracting audio...">>, 157)
      [] line = 157 -> Call("processors", 164, 218)
      [] line = 164 -> Call("extract_audio", 166, 170)
      [] line = 166 -> Set("progress", 30, 167)
      [] line = 167 -> Set("message", <<"Transcribing speech...">>, 174)
      [] line = 170 -> Reraise("Failed to extract audio: ", 218)
      [] line = 174 -> Call("transcribe", 182, 179)
      [] line = 179 -> Call("os.remove", 181, 218)
      [] line = 181 -> Reraise("Failed to transcribe audio: ", 218)
      [] line = 182 -> Set("progress", 60, 183)
      [] line = 183 -> Set("message", <<"Translating to English...">>, 186)
      [] line = 186 -> Call("translate_segments", 187, 218)
      [] line = 187 -> Set("progress", 75, 188)
      [] line = 188 -> Set("message", <<"Optimizing subtitle timing...">>, 191)
      [] line = 191 -> Call("merge_short_segments", 192, 218)
      [] line = 192 -> Call("split_long_segments", 194, 218)
      [] line = 194 -> Set("progress", 80, 195)
      [] line = 195 -> Set("message", <<"Generating subtitles...">>, 198)
      [] line = 198 -> Call("create_srt", 199, 218)
      [] line = 199 -> Set("progress", 90, 200)
      [] line = 200 -> Set("message", <<"Adding subtitles to video...">>, 203)
      [] line = 203 -> Call("add_subtitles", 206, 218)
      [] line = 206 -> Call("os.remove", 211, 218)
      [] line = 211 -> Set("status", "completed", 212)
      [] line = 212 -> Set("progress", 100, 213)
      [] line = 213 -> Set("message", <<"Video processing completed! Download includes video + SRT subtitle file.">>, 214)
      [] line = 214 -> Set("output_path", "output_path", 215)
      [] line = 215 -> Set("subtitle_info", "subtitle_info", 0)
      [] line = 218 -> Set("status", "error", 219)
      [] line = 219 -> SetErrorMessage(0)

\* process_video_demo, by line of main.py (time.sleep left out)
ProcessVideoDemoInstr(line) ==
    CASE line = 226 -> Set("status", "processing", 227)
      [] line = 227 -> Set("progress", 10, 228)
      [] line = 228 -> Set("message", <<"Extracting audio...">>, 231)
      [] line = 231 -> Set("progress", 30, 232)
      [] line = 232 -> Set("message", <<"Transcribing speech...">>, 235)
      [] line = 235 -> Set("progress", 60, 236)
      [] line = 236 -> Set("message", <<"Translating to English...">>, 239)
      [] line = 239 -> Set("progress", 80, 240)
      [] line = 240 -> Set("message", <<"Generating subtitles...">>, 258)
      [] line = 258 -> Call("write", 261, 283)
      [] line = 261 -> Set("progress", 90, 262)
      [] line = 262 -> Set("message", <<"Adding subtitles to video...">>, 271)
      [] line = 271 -> Call("shutil.copy2", 274, 283)
      [] line = 274 -> Call("os.remove", 277, 283)
      [] line = 277 -> Set("status", "completed", 278)
      [] line = 278 -> Set("progress", 100, 279)
      [] line = 279 -> Set("message", <<"Video processing completed!">>, 280)
      [] line = 280 -> Set("output_path", "output_path", 0)
      [] line = 283 -> Set("status", "error", 284)
      [] line = 284 -> SetErrorMessage(0)

\* the target of the thread upload_file starts
Instr(line) ==
    IF full_processing THEN ProcessVideoInstr(line) ELSE ProcessVideoDemoInstr(line)

\* variant of FirstLine: the target starts after its first statement
FirstLine_SkipFirst == IF full_processing THEN 153 ELSE 227

\* the first statement of the target
FirstLine == IF full_processing THEN 152 ELSE 226

\* variant of OnRaise: the exception is swallowed and the worker goes on
OnRaise_Continue(instr) == instr.next

\* where control goes when the call raises
OnRaise(instr) == instr.handler

\* variant of Put: writing status 'error' also puts progress back to 0
Put_ErrorResetsProgress(dict, key, value) ==
    [k \in DOMAIN dict \cup {key} |->
        IF k = key THEN value
        ELSE IF k = "progress" /\ key = "status" /\ value = "error" THEN 0
        ELSE dict[k]]

\* d[key] = value on a dict
Put(dict, key, value) ==
    [k \in DOMAIN dict \cup {key} |-> IF k = key THEN value ELSE dict[k]]

Jobs == 1..Len(processing_status)

\* job t's worker is at an instruction of kind op
At(t, op) == pc[t] # 0 /\ Instr(pc[t]).op = op

\* the job layer runs without the engine's lists
EngineIdle ==
    /\ entry_point = ""
    /\ input = <<>>
    /\ min_duration = Cs(DefaultMinDuration)
    /\ max_chars = DefaultMaxChars
    /\ max_duration = Cs(DefaultMaxDuration)
    /\ cur = <<>>
    /\ ops = <<>>
    /\ merge_log = {}
    /\ split_segments = <<>>
    /\ split_source = <<>>
    /\ arg = <<>>
    /\ raised = FALSE
    /\ srt_file = <<>>

InitJob ==
    /\ EngineIdle
    /\ full_processing \in BOOLEAN
    /\ processing_status = <<>>
    /\ pc = <<>>
    /\ exc = <<>>
    /\ job_raised = {}
    /\ downloads = {}

\* upload_file with an allowed file: the job's dict, then thread.start()
UploadFile ==
    /\ Len(processing_status) < MaxJobs
    /\ processing_status' = Append(processing_status,
           [status            |-> "uploaded",
            progress          |-> 0,
            message           |-> <<"File uploaded successfully">>,
            original_filename |-> "filename",
            source_language   |-> "auto"])
    /\ pc' = Append(pc, FirstLine)
    /\ exc' = Append(exc, <<>>)
    /\ UNCHANGED <<full_processing, job_raised, downloads>>
    /\ UNCHANGED engine_vars

\* processing_status[task_id][key] = value
WorkerSet(t) ==
    /\ At(t, "set")
    /\ LET instr == Instr(pc[t]) IN
       /\ processing_status' = [processing_status EXCEPT
               ![t] = Put(@, instr.key, instr.value)]
       /\ pc' = [pc EXCEPT ![t] = instr.next]
    /\ UNCHANGED <<full_processing, exc, job_raised, downloads>>
    /\ UNCHANGED engine_vars

\* a call of the worker returns
WorkerCallReturns(t) ==
    /\ At(t, "call")
    /\ pc' = [pc EXCEPT ![t] = Instr(pc[t]).next]
    /\ UNCHANGED <<full_processing, processing_status, exc, job_raised, downloads>>
    /\ UNCHANGED engine_vars

\* a call of the worker raises: str(e) names the call
WorkerCallRaises(t) ==
    /\ At(t, "call")
    /\ exc' = [exc EXCEPT ![t] = <<Instr(pc[t]).name>>]
    /\ pc' = [pc EXCEPT ![t] = OnRaise(Instr(pc[t]))]
    /\ job_raised' = job_raised \cup {t}
    /\ UNCHANGED <<full_processing, processing_status, downloads>>
    /\ UNCHANGED engine_vars

\* raise Exception(f"Failed to ...: {error}") in an inner except clause
WorkerReraise(t) ==
    /\ At(t, "raise")
    /\ exc' = [exc EXCEPT ![t] = <<Instr(pc[t]).prefix>> \o @]
    /\ pc' = [pc EXCEPT ![t] = Instr(pc[t]).handler]
    /\ UNCHANGED <<full_processing, processing_status, job_raised, downloads>>
    /\ UNCHANGED engine_vars

\* processing_status[task_id]['message'] = f'Error: {str(e)}'
WorkerSetErrorMessage(t) ==
    /\ At(t, "set_error_message")
    /\ processing_status' = [processing_status EXCEPT
           ![t] = Put(@, "message", <<"Error: ">> \o exc[t])]
    /\ pc' = [pc EXCEPT ![t] = Instr(pc[t]).next]
    /\ UNCHANGED <<full_processing, exc, job_raised, downloads>>
    /\ UNCHANGED engine_vars

\* download(task_id): past the status test it reads output_path and sends
\* the archive, or fails with KeyError; otherwise it redirects
Download(t) ==
    /\ downloads' =
           IF processing_status[t].status = "completed"
           THEN downloads \cup
                    { [task   |-> t,
                       result |-> IF "output_path" \in DOMAIN processing_status[t]
                                  THEN "sent" ELSE "KeyError"] }
           ELSE downloads
    /\ UNCHANGED <<full_processing, processing_status, pc, exc, job_raised>>
    /\ UNCHANGED engine_vars

NextJob ==
    \/ UploadFile
    \/ \E t \in Jobs :
           \/ WorkerSet(t)
           \/ WorkerCallReturns(t)
           \/ WorkerCallRaises(t)
           \/ WorkerReraise(t)
           \/ WorkerSetErrorMessage(t)
           \/ Download(t)

SpecJob == InitJob /\ [][NextJob]_vars

\* a statement of job t's worker thread
WorkerStep(t) ==
    /\ t \in Jobs
    /\ \/ WorkerSet(t)
       \/ WorkerCallReturns(t)
       \/ WorkerCallRaises(t)
       \/ WorkerReraise(t)
       \/ WorkerSetErrorMessage(t)

\* jobs of the runs in which the threads are scheduled fairly
MaxFairJobs == 1

NextJobFair ==
    \/ Len(processing_status) < MaxFairJobs /\ UploadFile
    \/ \E t \in Jobs :
           \/ WorkerSet(t)
           \/ WorkerCallReturns(t)
           \/ WorkerCallRaises(t)
           \/ WorkerReraise(t)
           \/ WorkerSetErrorMessage(t)
           \/ Download(t)

\* every started thread keeps being scheduled, and every call it makes
\* returns or raises
SpecJobFair ==
    /\ InitJob
    /\ [][NextJobFair]_vars
    /\ \A t \in 1..MaxFairJobs : WF_vars(WorkerStep(t))

----------------------------------------------------------------------------
(* Vocabulary of the properties *)

\* the engine ran as process_video runs it: merge, then split
EngineDone == ops = <<"merge", "split">>

\* the last pass was split_long_segments
SplitDone == ops # <<>> /\ Last(ops) = "split"

GuardGap == Cs(GuardGapCs)

\* every adjacent pair keeps the guard gap
Ordered(segs) ==
    \A i \in 1..(Len(segs) - 1) : segs[i].end + GuardGap <= segs[i + 1].start

WellFormed(segment) == segment.start < segment.end

\* sorted by start ascending without ties, every segment with start < end
SortedValid(segs) ==
    /\ \A i \in 1..Len(segs) : WellFormed(segs[i])
    /\ \A i \in 1..(Len(segs) - 1) : segs[i].start < segs[i + 1].start

\* the words of the texts of a list, in order
RECURSIVE AllWords(_)
AllWords(segs) ==
    IF segs = <<>> THEN <<>> ELSE PySplit(Head(segs).text) \o AllWords(Tail(segs))

----------------------------------------------------------------------------
(* Properties of the engine output *)

\* C1: whatever the input list, adjacent segments of the list returned by
\* split_long_segments(merge_short_segments(input)) keep the guard gap:
\* output[i].end + 0.02 <= output[i+1].start.
C1_OrderingInvariant == EngineDone => Ordered(cur)

\* C1 witness: the engine ran on a list whose segments overlapped and
\* returned at least two segments.
C1_Witness ==
    /\ EngineDone
    /\ Len(cur) >= 2
    /\ \E i \in 1..(Len(input) - 1) : input[i].end > input[i + 1].start

\* C2: for an input sorted by start ascending (here even without two equal
\* starts) whose segments all have start < end, every segment the engine
\* returns has start < end.
C2_NoInvertedRanges ==
    (EngineDone /\ SortedValid(input)) =>
        \A j \in 1..Len(cur) : cur[j].start < cur[j].end

\* C3: the words of the output texts, in order, are the words of the input
\* texts, in order.
C3_WordPreservation == EngineDone => AllWords(cur) = AllWords(input)

\* the input already satisfies the output invariants and the readability bounds
NonViolating(segs) ==
    /\ \A i \in 1..Len(segs) :
          /\ WellFormed(segs[i])
          /\ StrLen(segs[i].text) <= max_chars
          /\ Duration(segs[i]) <= max_duration
          /\ Duration(segs[i]) >= min_duration
    /\ Ordered(segs)

\* C4: an input that already satisfies the output invariants, with no segment
\* over max_chars or max_duration or under min_duration, is returned by
\* merge followed by split equal to itself, segment by segment and field by field.
C4_Idempotence == (EngineDone /\ NonViolating(input)) => cur = input

\* C4 witness: the engine ran on a non-violating list of at least two
\* segments, one of them closer than the merge gap to its successor.
C4_Witness ==
    /\ EngineDone
    /\ NonViolating(input)
    /\ Len(input) >= 2
    /\ \E i \in 1..(Len(input) - 1) :
          input[i + 1].start - input[i].end < Cs(MergeGapCs)

\* C5: for an input sorted by start ascending (here even without two equal
\* starts) whose segments all have start < end, the starts of the engine's
\* output are strictly increasing.
C5_StrictlyIncreasingStarts ==
    (EngineDone /\ SortedValid(input)) =>
        \A j \in 1..(Len(cur) - 1) : cur[j].start < cur[j + 1].start

\* merge_short_segments ran alone on scenario A with min_duration = 1.0
ScenarioARan ==
    ops = <<"merge">> /\ input = ScenarioA /\ min_duration = Cs(100)
        /\ max_chars = DefaultMaxChars

\* C6 as stated: scenario A merges into the single segment (0.0, 0.9, "Hi there").
C6_ScenarioA_Original ==
    ScenarioARan => cur = <<Seg(0, 90, <<"Hi", SP, "there">>)>>

\* C6 amended: scenario A merges into the single segment (0.0, 1.0, "Hi there"):
\* the end 0.9 is extended by min(0.3, 1.0 - 0.9) to the minimum duration.
C6_ScenarioA ==
    ScenarioARan => cur = <<Seg(0, 100, <<"Hi", SP, "there">>)>>

\* C6 witness: merge_short_segments returned for scenario A.
C6_Witness == ScenarioARan /\ Len(cur) = 1

\* _preserve_original_timing ran alone on the input
PreserveRan == ops = <<"preserve">>

\* C7 as stated: on scenario C the overlap pass leaves A at (1.0, 3.0) and
\* moves the start of B to 3.0 + 0.02.
C7_ScenarioC_Original ==
    (PreserveRan /\ input = ScenarioC) =>
        /\ cur[1].start = Cs(100) /\ cur[1].end = Cs(300)
        /\ cur[2].start = Cs(302)

\* C7 amended: on scenario C the overlap pass leaves B at (2.5, 4.0) and clamps
\* the end of A to 2.5 - 0.02; in general a segment whose end is later than the
\* next segment's start minus the guard gap has its end clamped to
\* next.start - 0.02, and the next segment's start is not moved.
C7_ScenarioC ==
    PreserveRan =>
        /\ input = ScenarioC => cur = <<Seg(100, 248, TA), Seg(250, 400, TB)>>
        /\ Len(cur) = Len(input)
        /\ \A i \in 1..(Len(input) - 1) :
              input[i].end > input[i + 1].start - GuardGap =>
                  /\ cur[i].end = input[i + 1].start - GuardGap
                  /\ cur[i + 1].start = input[i + 1].start

\* C7 witness: the overlap pass returned for scenario C.
C7_Witness == PreserveRan /\ input = ScenarioC /\ Len(cur) = 2

\* the segments of a list that are not malformed
RECURSIVE WellFormedOnly(_)
WellFormedOnly(segs) ==
    IF segs = <<>> THEN <<>>
    ELSE (IF WellFormed(Head(segs)) THEN <<Head(segs)>> ELSE <<>>)
             \o WellFormedOnly(Tail(segs))

\* C8: an input segment with end <= start is absent from the engine's output,
\* as a segment and as text absorbed into a neighbour: the output holds no
\* more words than the well-formed input segments do.
C8_DropMalformed ==
    EngineDone => Len(AllWords(cur)) <= Len(AllWords(WellFormedOnly(input)))

\* C9: every segment returned by split_long_segments lasts at most max_duration.
C9_SplitByDuration ==
    SplitDone => \A j \in 1..Len(cur) : Duration(cur[j]) <= max_duration

\* C10 as stated: every segment returned by split_long_segments has
\* len(text) <= max_chars.
C10_CharBudget_Original ==
    SplitDone => \A j \in 1..Len(cur) : StrLen(cur[j].text) <= max_chars

\* C10 amended: every segment returned by split_long_segments has
\* len(text) <= max_chars, or its text is one single word (a word longer than
\* max_chars is emitted alone).
C10_CharBudget ==
    SplitDone =>
        \A j \in 1..Len(cur) :
            \/ StrLen(cur[j].text) <= max_chars
            \/ Len(cur[j].text) = 1 /\ cur[j].text[1] # SP

\* C10 witness: split_long_segments returned a segment that is one word longer
\* than max_chars, and a segment of several words.
C10_Witness ==
    /\ SplitDone
    /\ \E j \in 1..Len(cur) : StrLen(cur[j].text) > max_chars
    /\ \E j \in 1..Len(cur) : Len(PySplit(cur[j].text)) >= 2
\* split_long_segments ran alone on scenario B
ScenarioBRan ==
    ops = <<"split">> /\ input = ScenarioB /\ max_chars = DefaultMaxChars

\* C11 as stated: scenario B splits into at least 2 fragments that partition
\* [0.0, 10.0]: first start 0.0, last end 10.0, each end equal to the next start.
C11_ScenarioB_Original ==
    ScenarioBRan =>
        /\ Len(cur) >= 2
        /\ cur[1].start = Cs(0)
        /\ Last(cur).end = Cs(1000)
        /\ \A j \in 1..(Len(cur) - 1) : cur[j].end = cur[j + 1].start

\* C11 amended: scenario B splits into at least 2 fragments inside [0.0, 10.0]:
\* first start 0.0, last end 10.0, and each fragment's end is the next
\* fragment's start minus the guard gap of 0.02 (a 20 ms gap, no overlap).
C11_ScenarioB ==
    ScenarioBRan =>
        /\ Len(cur) >= 2
        /\ cur[1].start = Cs(0)
        /\ Last(cur).end = Cs(1000)
        /\ \A j \in 1..(Len(cur) - 1) : cur[j].end = cur[j + 1].start - GuardGap

\* C11 witness: split_long_segments returned seven fragments of ten words.
C11_Witness ==
    /\ ScenarioBRan
    /\ Len(cur) = 7
    /\ \A j \in 1..Len(cur) : Len(PySplit(cur[j].text)) = 10
\* merge_short_segments ran alone
MergeRan == ops = <<"merge">>

\* the output segments that came out of the merge branch
MergedOutputs ==
    { j \in 1..Len(cur) : \E e \in merge_log : e.result = cur[j] }

\* C12: merge_short_segments absorbs a segment into current_segment only if
\* len(current.text + ' ' + segment.text) <= max_chars and
\* segment.start - current.end < 0.5; every output segment that results from
\* a merge has len(text) <= max_chars.
C12_MergeReadabilityBounds ==
    MergeRan =>
        /\ \A e \in merge_log :
               /\ StrLen(JoinSp(e.current.text, e.segment.text)) <= max_chars
               /\ e.segment.start - e.current.end < Cs(MergeGapCs)
               /\ e.result.text = JoinSp(e.current.text, e.segment.text)
        /\ \A j \in MergedOutputs : StrLen(cur[j].text) <= max_chars

\* C12 witness: two segments were merged into one output segment whose text
\* has more than one word.
C12_Witness ==
    /\ MergeRan
    /\ Len(input) = 2
    /\ MergedOutputs = {1}
    /\ Len(PySplit(cur[1].text)) >= 2
\* the iterations of the merge branch that closed their group: the segment
\* after them was not absorbed
GroupEnds ==
    { e \in merge_log :
        e.i < Len(input) /\ \A f \in merge_log : f.i # e.i + 1 }

\* C13: when merge_short_segments extends a merged segment's end, the
\* extension is at most 0.3 s and the extended end does not exceed the start
\* of the input segment that follows the merged group; the merge pass
\* creates no overlap that its input did not have.
C13_ExtensionBoundedByNext ==
    MergeRan =>
        /\ \A e \in merge_log : e.result.end - e.segment.end <= Cs(MaxExtensionCs)
        /\ \A e \in GroupEnds :
               e.segment.end <= input[e.i + 1].start =>
                   e.result.end <= input[e.i + 1].start
        /\ (\A i \in 1..(Len(input) - 1) : input[i].end <= input[i + 1].start) =>
               (\A j \in 1..(Len(cur) - 1) : cur[j].end <= cur[j + 1].start)
\* the positions of split_segments that hold fragments: their source
\* segment was broken up, not copied
Fragments ==
    { j \in 1..Len(split_segments) :
        ~NeedsNoSplit(split_source[j], max_chars, max_duration) }

\* C14: for every segment s with s.start < s.end that split_long_segments
\* breaks into fragments, each fragment f has s.start <= f.start and
\* f.end <= s.end, both before and after the overlap pass.
C14_FragmentsInsideSource ==
    SplitDone =>
        /\ Len(cur) = Len(split_segments)
        /\ \A j \in Fragments :
               LET s == split_source[j] IN
               s.start < s.end =>
                   /\ s.start <= split_segments[j].start
                   /\ split_segments[j].end <= s.end
                   /\ s.start <= cur[j].start
                   /\ cur[j].end <= s.end

\* C14 witness: a segment with start < end and start > 0 was broken into two
\* or more fragments, and the overlap pass moved the end of one of them.
C14_Witness ==
    /\ SplitDone
    /\ \E j \in Fragments :
           /\ j + 1 \in Fragments
           /\ split_source[j] = split_source[j + 1]
           /\ 0 < split_source[j].start
           /\ split_source[j].start < split_source[j].end
           /\ cur[j].end < split_segments[j].end
\* the fragment at position j of split_segments and of the returned list
\* have field k with value v
FragmentField(j, k, v) ==
    /\ k \in DOMAIN split_segments[j] /\ split_segments[j][k] = v
    /\ k \in DOMAIN cur[j] /\ cur[j][k] = v

\* C15 as stated: every fragment carries its source segment's original_text
\* and confidence, and a source segment without one of the fields yields
\* fragments without that field.
C15_Provenance_Original ==
    SplitDone =>
        \A j \in Fragments : \A k \in {"original_text", "confidence"} :
            IF k \in DOMAIN split_source[j]
            THEN FragmentField(j, k, split_source[j][k])
            ELSE k \notin DOMAIN split_segments[j] /\ k \notin DOMAIN cur[j]

\* C15 amended: every fragment carries its source segment's original_text
\* and confidence when the source has the field; when the source has no
\* original_text the fragment's original_text is the source's whole text, and
\* when it has no confidence the fragment's confidence is 0.0.
C15_Provenance ==
    SplitDone =>
        \A j \in Fragments :
            LET s == split_source[j] IN
            /\ FragmentField(j, "original_text",
                             IF "original_text" \in DOMAIN s
                             THEN s.original_text ELSE s.text)
            /\ FragmentField(j, "confidence",
                             IF "confidence" \in DOMAIN s THEN s.confidence ELSE 0)

\* C15 witness: fragments were made of a source with both fields, of a source
\* with original_text only and of a source with confidence only.
C15_Witness ==
    /\ SplitDone
    /\ \E j \in Fragments : DOMAIN split_source[j] = {"start", "end", "text", "original_text", "confidence"}
    /\ \E j \in Fragments : DOMAIN split_source[j] = {"start", "end", "text", "original_text"}
    /\ \E j \in Fragments : DOMAIN split_source[j] = {"start", "end", "text", "confidence"}
\* one pass ran, on the input list
OnePassRan == Len(ops) = 1

\* what the pass that ran returns when it is called on segs
CallAgain(segs) ==
    CASE ops = <<"merge">>    -> merge_short_segments(segs, min_duration, max_chars)
      [] ops = <<"split">>    -> split_long_segments(segs, max_chars, max_duration)
      [] ops = <<"preserve">> -> _preserve_original_timing(segs)

\* C16: merge_short_segments, split_long_segments and
\* _preserve_original_timing leave the list they are called with and every
\* field of its segments unchanged, so that a second call on the same list
\* returns a result equal to the first.
C16_PassesArePure ==
    OnePassRan =>
        /\ arg = input
        /\ CallAgain(arg) = cur

\* C16 witness: a pass returned a list that differs from the list it was
\* called with at a position both have.
C16_Witness ==
    /\ OnePassRan
    /\ \E i \in 1..Len(input) : i <= Len(cur) /\ cur[i] # input[i]
\* every segment of the input has start < end (start, end and text are
\* fields of every segment of the model)
ValidInput == \A i \in 1..Len(input) : WellFormed(input[i])

\* C17: for every input list, the empty one included, whose segments have
\* start, end and text with start < end, merge_short_segments followed by
\* split_long_segments returns a list without raising; a segment whose text
\* has no words causes no division by zero.
C17_Totality ==
    ValidInput => ~raised

\* C17 witness: the engine returned for an input with a segment without
\* words that split_long_segments had to break up.
C17_Witness ==
    /\ EngineDone
    /\ ValidInput
    /\ ~raised
    /\ \E i \in 1..Len(input) :
           /\ PySplit(input[i].text) = <<>>
           /\ ~NeedsNoSplit(input[i], max_chars, max_duration)
\* C18: merge_short_segments applied to a list of exactly one segment returns
\* a list of exactly one segment with the same start, end and text, whatever
\* its duration and text length.
C18_SinglePassThrough ==
    (MergeRan /\ Len(input) = 1) =>
        /\ Len(cur) = 1
        /\ cur[1] = input[1]

\* C18 witness: a single segment shorter than min_duration and shorter than
\* its reading time came back as it was.
C18_Witness ==
    /\ MergeRan
    /\ Len(input) = 1
    /\ 0 < Duration(input[1])
    /\ Duration(input[1]) < OptimalDuration(input[1].text, min_duration)
    /\ cur = input
\* create_srt ran; cur is the list it was called with
SrtWritten == srt_file # <<>>

\* C19: create_srt writes exactly one entry per segment of its input, in
\* input order; the entry of the k-th segment carries the index k, so the
\* indices are 1, 2, ..., n; create_srt does not modify the segments.
C19_SerializerShape ==
    SrtWritten =>
        LET entries == srt_file[1] IN
        /\ Len(entries) = Len(cur)
        /\ \A k \in 1..Len(entries) :
               /\ entries[k].index = k
               /\ entries[k].text = cur[k].text
               /\ entries[k].start_time = SecondsToSrtTime(cur[k].start)
               /\ entries[k].end_time = SecondsToSrtTime(cur[k].end)
        /\ arg = cur

\* C19 witness: create_srt wrote the entries of an engine output of three or
\* more segments.
C19_Witness ==
    /\ SrtWritten
    /\ ops = <<"merge", "split">>
    /\ Len(srt_file[1]) >= 3
    /\ srt_file[1][3].index = 3
\* job t's worker thread ended
Ended(t) == pc[t] = 0

\* C20: if a stage of process_video raises, the job's status becomes 'error'
\* with a message that starts with 'Error: '; the status is never
\* 'completed' during that execution, and download never serves the job.
C20_FailureSurfacesAsError ==
    \A t \in job_raised :
        /\ processing_status[t].status # "completed"
        /\ \A dl \in downloads : dl.task # t
        /\ Ended(t) =>
               /\ processing_status[t].status = "error"
               /\ Head(processing_status[t].message) = "Error: "

\* C20 witness: process_video ended after add_subtitles raised, at
\* progress 90, while another job was served.
C20_Witness ==
    /\ full_processing
    /\ \E t \in job_raised :
           /\ Ended(t)
           /\ processing_status[t].progress = 90
           /\ processing_status[t].message = <<"Error: ", "add_subtitles">>
    /\ downloads # {}
----------------------------------------------------------------------------
(* The translation stage and the order of the pipeline *)

\* translate_segments returned its list
TranslateRan == ops = <<"translate">>

\* C21: no segment whose text is empty after cleaning appears in the list
\* translate_segments returns, whatever its language field; and no segment
\* with empty text reaches create_srt in process_video.
C21_EmptyTextDropped ==
    /\ TranslateRan =>
           \A i \in 1..Len(cur) : _clean_text(cur[i].original_text) # <<>>
    /\ (entry_point = "process_video" /\ SrtWritten) =>
           \A i \in 1..Len(cur) : cur[i].text # <<>>
\* C22: merge_short_segments absorbs an incoming segment only when the open
\* current segment's duration is below min_duration; a current segment
\* whose duration is already min_duration or more never absorbs the next one.
C22_CurrentDurationGate ==
    MergeRan => \A e \in merge_log : Duration(e.current) < min_duration
\* C23: in every entry point that writes a subtitle file from transcribed
\* segments, create_srt is called only on the result of merge_short_segments
\* followed by split_long_segments.
C23_PipelineOrder ==
    (entry_point \in EntryPoints /\ SrtWritten) =>
        ops = <<"translate", "merge", "split">>
----------------------------------------------------------------------------
(* The life of a job *)

Terminal(t) == processing_status[t].status \in { "completed", "error" }

\* the changes of status a job may go through
StatusChanges ==
    { <<"uploaded", "processing">>, <<"processing", "completed">>,
      <<"processing", "error">> }

\* a step creates jobs as 'uploaded' and changes the status of the others
\* along StatusChanges only
LifecycleStep ==
    /\ \A t \in Jobs :
           \/ processing_status'[t].status = processing_status[t].status
           \/ <<processing_status[t].status, processing_status'[t].status>>
                  \in StatusChanges
    /\ \A t \in (1..Len(processing_status')) \ Jobs :
           processing_status'[t].status = "uploaded"

\* C24: every job starts as 'uploaded', moves to 'processing', and (each
\* external call returning or raising) eventually reaches 'completed' or
\* 'error'; a job that is 'completed' or 'error' never changes status again.
C24_JobLifecycle ==
    /\ [][LifecycleStep]_vars
    /\ \A t \in 1..MaxFairJobs : (t \in Jobs) ~> (t \in Jobs /\ Ended(t) /\ Terminal(t))

\* a job's worker ended with status 'error', having got as far as 90
C24_Witness ==
    \E t \in Jobs :
        /\ Ended(t)
        /\ processing_status[t].status = "error"
        /\ processing_status[t].progress = 90
\* C25: in every state of a worker interleaved with status and download
\* requests, a job whose status is 'completed' has the key output_path, so
\* download never reads a missing output_path of a job it saw as completed.
C25_CompletedHasOutputPath ==
    /\ \A t \in Jobs :
           processing_status[t].status = "completed" =>
               "output_path" \in DOMAIN processing_status[t]
    /\ \A request \in downloads : request.result # "KeyError"
----------------------------------------------------------------------------
(* The overlap pass and the merge pass on lists that overlap *)

\* every segment's end is at least its start
EndsAfterStarts(segs) == \A i \in 1..Len(segs) : segs[i].end >= segs[i].start

\* out is segs with every end but the last cut to the next start minus the
\* gap, and nothing else changed; no start was pushed forward on the way
OnlyShortened(segs, out) ==
    /\ Len(out) = Len(segs)
    /\ \A i \in 1..Len(segs) :
           out[i] = [segs[i] EXCEPT !.end =
                        IF i < Len(segs)
                        THEN Min(segs[i].end, segs[i + 1].start - GuardGap)
                        ELSE segs[i].end]
    /\ \A i \in 1..Len(segs) : ~StartsBeforePrev(SubSeq(out, 1, i - 1), segs[i])

\* C26: on a list in which every end is at least its start,
\* _preserve_original_timing returns a list of the same length and order,
\* every start equal to the input's and every end equal to min(input end,
\* next input start - 0.02), the last unchanged; the branch that pushes a
\* start forward is never taken.
C26_OverlapPassOnlyShortens ==
    /\ (PreserveRan /\ EndsAfterStarts(input)) => OnlyShortened(input, cur)
    /\ (SplitDone /\ EndsAfterStarts(split_segments)) =>
           OnlyShortened(split_segments, cur)

\* the overlap pass ran on two segments that overlap and cut the first
C26_Witness ==
    /\ PreserveRan
    /\ EndsAfterStarts(input)
    /\ Len(input) = 2
    /\ input[2].start < input[1].end
    /\ cur[1].end < input[1].end
\* C27: on a list sorted by start with start < end in every segment
\* (overlapping or nested segments allowed), absorbing a segment keeps the
\* current segment's start, the start of the first segment of its group,
\* and never moves its end earlier: the end stays at or after the end of
\* every segment of the group.
C27_MergeCoversAbsorbed ==
    (MergeRan /\ SortedValid(input)) =>
        \A e \in merge_log :
            /\ e.result.start = e.current.start
            /\ e.result.end >= e.segment.end
            /\ e.result.end >= e.current.end
\* C28: on a list sorted by start in which every segment has
\* 0 <= start < end, every segment that merge_short_segments followed by
\* split_long_segments returns has start >= 0 and end >= 0, so create_srt is
\* never given a negative time.
C28_NonNegativeTimestamps ==
    (EngineDone /\ SortedValid(input) /\ \A i \in 1..Len(input) : input[i].start >= 0) =>
        \A j \in 1..Len(cur) : cur[j].start >= 0 /\ cur[j].end >= 0
----------------------------------------------------------------------------
(* Progress *)

\* the progress values process_video writes, after upload_file's 0
ProgressValues == <<0, 10, 30, 60, 75, 80, 90, 100>>

\* the progress values process_video_demo writes, after upload_file's 0
ProgressValuesDemo == <<0, 10, 30, 60, 80, 90, 100>>

\* the pairs of values that follow each other in s
Successive(s) == { <<s[k], s[k + 1]>> : k \in 1..(Len(s) - 1) }

\* a step leaves a job's progress alone or moves it to the next value of
\* values; a new job has progress 0
ProgressStep(values) ==
    /\ \A t \in Jobs :
           \/ processing_status'[t].progress = processing_status[t].progress
           \/ <<processing_status[t].progress, processing_status'[t].progress>>
                  \in Successive(values)
    /\ \A t \in (1..Len(processing_status')) \ Jobs :
           processing_status'[t].progress = 0

\* progress is 100 only in a job whose status is 'completed'
HundredOnlyWhenCompleted ==
    \A t \in Jobs :
        processing_status[t].progress = 100 => processing_status[t].status = "completed"

\* C29 as stated: in process_video and in process_video_demo the values
\* written to progress are 0, 10, 30, 60, 75, 80, 90, 100 in this order, up
\* to where the job stopped; an error never resets or lowers progress, and
\* progress is 100 only when status is 'completed'.
C29_ProgressMonotone_Original ==
    /\ [][ProgressStep(ProgressValues)]_vars
    /\ []HundredOnlyWhenCompleted

\* C29: the values written to progress never decrease: they are 0, 10, 30,
\* 60, 75, 80, 90, 100 in process_video and 0, 10, 30, 60, 80, 90, 100 in
\* process_video_demo, in this order, up to where the job stopped; an error
\* never resets or lowers progress, and progress is 100 only when status is
\* 'completed'.
C29_ProgressMonotone ==
    /\ [][ProgressStep(IF full_processing THEN ProgressValues
                       ELSE ProgressValuesDemo)]_vars
    /\ []HundredOnlyWhenCompleted

\* a demo job reached 100 and another stopped in error at 90
C29_Witness ==
    /\ ~full_processing
    /\ \E t, u \in Jobs :
           /\ Ended(t) /\ processing_status[t].progress = 100
           /\ Ended(u) /\ processing_status[u].status = "error"
           /\ processing_status[u].progress = 90
----------------------------------------------------------------------------
(* Applying a pass to its own output *)

\* every segment is within max_chars and max_duration
WithinLimits(segs) ==
    \A j \in 1..Len(segs) : NeedsNoSplit(segs[j], max_chars, max_duration)

\* C30: _preserve_original_timing applied to its own output returns it
\* unchanged, segment by segment; and split_long_segments, with the same
\* max_chars and max_duration, applied to its own output returns that
\* output unchanged whenever every segment of it is within max_chars and
\* max_duration.
C30_PassesIdempotent ==
    /\ (PreserveRan \/ SplitDone) => _preserve_original_timing(cur) = cur
    /\ (SplitDone /\ WithinLimits(cur)) =>
           /\ ~SplitRaises(cur, max_chars, max_duration)
           /\ split_long_segments(cur, max_chars, max_duration) = cur

\* split_long_segments broke a segment up, its overlap pass cut an end, and
\* every segment it returned is within the limits
C30_Witness ==
    /\ SplitDone
    /\ WithinLimits(cur)
    /\ Len(cur) > Len(input)
    /\ cur # split_segments

====
